---- MODULE Spec2Model ----
(***************************************************************************)
(* State-machine model of src/extractor.js: the FMCSA bulk extractor.      *)
(*                                                                         *)
(* Text is modelled as a sequence of chunks (strings).  A page is a        *)
(* sequence of tokens [t |-> kind, v |-> text]; a regular-expression       *)
(* search over a page is "the first token of a matching kind", which is    *)
(* what String.prototype.match / RegExp.prototype.exec return.             *)
(* Time is counted in milliseconds since the timer of extractOne was       *)
(* armed.                                                                  *)
(***************************************************************************)
EXTENDS Integers, Sequences, FiniteSets, TLC

\* ------------------------------------------------------------------------
\* Bounds of the model
\* ------------------------------------------------------------------------
MaxLines == 3      \* lines of mc_list.txt
MaxConc == 2       \* CONCURRENCY is drawn from 1..MaxConc
MaxTries == 4      \* the tries argument of fetchRetry is drawn from 0..MaxTries
LatencyMs == 100   \* time a server takes to answer when it answers at all
MaxFiles == 4      \* checkpoints a run is followed for (a list of MaxLines needs fewer)

\* ------------------------------------------------------------------------
\* Program constants (src/extractor.js:17-20)
\* ------------------------------------------------------------------------
EXTRACT_TIMEOUT_MS == 20000
FETCH_TIMEOUT_MS == 20000
MAX_RETRIES == 3
BACKOFF_BASE_MS == 2000
HopPauseMs == 300

\* ------------------------------------------------------------------------
\* Generic helpers
\* ------------------------------------------------------------------------
Min(a, b) == IF a < b THEN a ELSE b
Max(a, b) == IF a < b THEN b ELSE a

RECURSIVE Pow2(_)
Pow2(n) == IF n = 0 THEN 1 ELSE 2 * Pow2(n - 1)

RECURSIVE SumSeq(_)
SumSeq(s) == IF s = <<>> THEN 0 ELSE Head(s) + SumSeq(Tail(s))

IsPrefix(s, t) == Len(s) <= Len(t) /\ SubSeq(t, 1, Len(s)) = s

\* index of the first element of s satisfying Test, 0 when there is none
FirstIndex(s, Test(_)) ==
  IF \E k \in 1..Len(s) : Test(s[k])
  THEN CHOOSE k \in 1..Len(s) : Test(s[k]) /\ \A j \in 1..(k - 1) : ~Test(s[j])
  ELSE 0

\* ------------------------------------------------------------------------
\* Text helpers
\* ------------------------------------------------------------------------
IsSpace(c) == c \in {" ", "\t"}

\* String.prototype.trim
RECURSIVE TrimLeft(_)
TrimLeft(s) == IF s # <<>> /\ IsSpace(Head(s)) THEN TrimLeft(Tail(s)) ELSE s

RECURSIVE TrimRight(_)
TrimRight(s) ==
  IF s # <<>> /\ IsSpace(s[Len(s)]) THEN TrimRight(SubSeq(s, 1, Len(s) - 1)) ELSE s

Trim(s) == TrimRight(TrimLeft(s))

\* .replace(/\s+/g,'')
StripSpaces(s) == SelectSeq(s, LAMBDA c : ~IsSpace(c))

\* encodeURIComponent, one character at a time
EncodeChar(c) ==
  CASE c = "/" -> "%2F"
    [] c = "&" -> "%26"
    [] c = " " -> "%20"
    [] OTHER -> c

encodeURIComponent(s) == [k \in 1..Len(s) |-> EncodeChar(s[k])]

SaferOrigin == "https://safer.fmcsa.dot.gov"
SnapshotPath ==
  "/query.asp?searchtype=ANY&query_type=queryCarrierSnapshot&query_param=MC_MX&query_string="

mcToSnapshotUrl(mc) == <<SaferOrigin, SnapshotPath>> \o encodeURIComponent(StripSpaces(mc))

\* new URL(href, base).href; an href is <<origin, path>>, origin "" when relative
absoluteUrl(base, href) == IF href[1] = "" THEN <<base[1]>> \o Tail(href) ELSE href

\* String.prototype.toLowerCase on the texts of the pages
ToLowerCase(c) ==
  CASE c = "Record Not Found" -> "record not found"
    [] c = "RECORD INACTIVE" -> "record inactive"
    [] c = "Power Units" -> "power units"
    [] OTHER -> c

\* htmlToText: tags and &nbsp; to a space, entities decoded, runs of
\* whitespace collapsed, trimmed
DeTag(c) ==
  CASE c \in {"<b>", "</b>", "<br>", "&nbsp;"} -> " "
    [] c = "&amp;" -> "&"
    [] c = "&lt;" -> "<"
    [] c = "&gt;" -> ">"
    [] OTHER -> c

RECURSIVE CollapseSpaces(_)
CollapseSpaces(s) ==
  IF Len(s) < 2 THEN s
  ELSE IF IsSpace(s[1]) /\ IsSpace(s[2]) THEN CollapseSpaces(Tail(s))
  ELSE <<IF IsSpace(s[1]) THEN " " ELSE s[1]>> \o CollapseSpaces(Tail(s))

htmlToText(s) == Trim(CollapseSpaces([k \in 1..Len(s) |-> DeTag(s[k])]))

\* ------------------------------------------------------------------------
\* Pages
\* ------------------------------------------------------------------------
Tok(kind, text) == [t |-> kind, v |-> text]

\* the page text contains the chunk c
PageHas(html, c) == \E k \in 1..Len(html) : \E j \in 1..Len(html[k].v) : html[k].v[j] = c

LowerPage(html) ==
  [k \in 1..Len(html) |->
     Tok(html[k].t, [j \in 1..Len(html[k].v) |-> ToLowerCase(html[k].v[j])])]

\* hrefs the link patterns of extractOne accept
SmsHref == <<"", "/SMS/safer_xfr.aspx?DOT=1">>
SmsAbsHref == <<"https://ai.fmcsa.dot.gov", "/SMS/Carrier/1/Overview.aspx">>
OtherHref == <<"", "/about.html">>
RegHref == <<"", "/SMS/Carrier/1/CarrierRegistration.aspx">>

IsSmsHref(h) == h \in {SmsHref, SmsAbsHref}
IsRegHref(h) == h = RegHref

\* phone-shaped texts: the snapshot pattern also accepts dots
DashPhones == {"(555) 111-2222", "555-333-4444"}
DotPhones == {"555.666.7777"}
EmailAddrs == {"info@acme.com"}
AtChunks == EmailAddrs \cup {"@"}

\* lookup (snapshot) pages
PageNotFound == <<Tok("text", <<"Record Not Found">>), Tok("mc", <<"111">>)>>
PageInactive ==
  <<Tok("mc", <<"111">>), Tok("pu", <<"1", "2">>), Tok("text", <<"RECORD INACTIVE">>)>>
PagePuZero == <<Tok("mc", <<"111">>), Tok("pu", <<"0", ",", "0", "0", "0">>)>>
PageLinked ==
  <<Tok("mcmx", <<"222">>), Tok("mc", <<"111">>), Tok("pu", <<"1", ",", "2", "0", "0">>),
    Tok("phone", <<"555.666.7777">>), Tok("href", OtherHref), Tok("href", SmsHref)>>
PageBare == <<Tok("text", <<"Power Units">>), Tok("phone", <<"(555) 111-2222">>)>>

LookupPages == {PageNotFound, PageInactive, PagePuZero, PageLinked, PageBare}

\* safety-measurement (hop 2) pages
PageSms == <<Tok("href", OtherHref), Tok("href", RegHref)>>
PageSmsBare == <<Tok("href", OtherHref)>>
SmsPages == {PageSms, PageSmsBare}

\* carrier-registration (hop 3) pages
PageRegDat ==
  <<Tok("dat", <<"<b>", "ACME", "&amp;", "SONS", "</b>">>),
    Tok("dat", <<"&nbsp;", "info@acme.com", " ">>),
    Tok("dat", <<"555-333-4444">>)>>
PageRegRaw == <<Tok("dat", <<"ACME">>), Tok("mailto", <<"info@acme.com">>)>>
RegPages == {PageRegDat, PageRegRaw}

\* ------------------------------------------------------------------------
\* ValidityGate (handleMC, lines 143-151)
\* ------------------------------------------------------------------------
HasInvalidMarker(html) ==
  LET low == LowerPage(html)
  IN PageHas(low, "record not found") \/ PageHas(low, "record inactive")

\* Number(s.replace(/,/g,'')) === 0 for a run of digits and commas
IsZeroNumber(digits) ==
  LET d == SelectSeq(digits, LAMBDA c : c # ",") IN \A k \in 1..Len(d) : d[k] = "0"

PuZero(html) ==
  LET k == FirstIndex(html, LAMBDA tok : tok.t = "pu")
  IN k # 0 /\ IsZeroNumber(html[k].v)

\* a gate that forgets the Power Units figure
PassesGateNoPu(html) == ~HasInvalidMarker(html)

PassesGate(html) == ~HasInvalidMarker(html) /\ ~PuZero(html)

\* the tokens of the lookup page that make an identifier dead: the texts with
\* a marker and a Power Units figure of zero; <<>> for a page without any
Marked(html) ==
  SelectSeq(html, LAMBDA tok : \/ HasInvalidMarker(<<tok>>)
                               \/ tok.t = "pu" /\ PuZero(html) /\ IsZeroNumber(tok.v))

\* ------------------------------------------------------------------------
\* PageParser (extractOne, lines 85-106 and 113-130)
\* ------------------------------------------------------------------------
\* the token kinds each pattern of pats matches, in the order of the array
pats == <<{"mc", "mcmxff", "mcmxmc"}, {"mcmxff"}, {"mcmxmc"}, {"mcmx"}>>

MatchPat(html, p) == FirstIndex(html, LAMBDA tok : tok.t \in p)

ExtractMcNumber(html) ==
  LET hit == FirstIndex(pats, LAMBDA p : MatchPat(html, p) # 0)
      any == MatchPat(html, {"mc", "mcmxff", "mcmxmc"})
  IN IF hit # 0 THEN <<"MC-">> \o html[MatchPat(html, pats[hit])].v
     ELSE IF any # 0 THEN <<"MC-">> \o html[any].v
     ELSE <<>>

IsPhoneChunk(c, dots) == c \in DashPhones \/ (dots /\ c \in DotPhones)

\* first phone-shaped text of the page, <<>> when there is none
FirstPhone(html, dots) ==
  LET k == FirstIndex(html, LAMBDA tok : \E j \in 1..Len(tok.v) : IsPhoneChunk(tok.v[j], dots))
  IN IF k = 0 THEN <<>>
     ELSE <<html[k].v[FirstIndex(html[k].v, LAMBDA c : IsPhoneChunk(c, dots))]>>

extractPhoneAnywhere(html) == FirstPhone(html, TRUE)

FindLink(base, html, Accepts(_)) ==
  LET k == FirstIndex(html, LAMBDA tok : tok.t = "href" /\ Accepts(tok.v))
  IN IF k = 0 THEN <<>> ELSE absoluteUrl(base, html[k].v)

FindSmsLink(url, html) == FindLink(url, html, IsSmsHref)
FindRegLink(smsLink, smsHtml) == FindLink(smsLink, smsHtml, IsRegHref)

\* the de-tagged texts of the <span class="dat"> elements, in page order
DatTexts(regHtml) ==
  LET spans == SelectSeq(regHtml, LAMBDA tok : tok.t = "dat")
  IN [k \in 1..Len(spans) |-> htmlToText(spans[k].v)]

HasAt(txt) == \E j \in 1..Len(txt) : txt[j] \in AtChunks

FoundEmail(regHtml) ==
  LET txts == DatTexts(regHtml)
      k == FirstIndex(txts, HasAt)
      raw == FirstIndex(regHtml, LAMBDA tok : \E j \in 1..Len(tok.v) : tok.v[j] \in EmailAddrs)
  IN IF k # 0 THEN txts[k]
     ELSE IF raw # 0 THEN <<regHtml[raw].v[FirstIndex(regHtml[raw].v, LAMBDA c : c \in EmailAddrs)]>>
     ELSE <<>>

FoundPhone(regHtml) ==
  LET txts == DatTexts(regHtml)
      spans == [k \in 1..Len(txts) |-> Tok("dat", txts[k])]
      inSpan == FirstPhone(spans, FALSE)
  IN IF inSpan # <<>> THEN inSpan ELSE FirstPhone(regHtml, FALSE)

\* ------------------------------------------------------------------------
\* FetchClient (fetchWithTimeout and fetchRetry, lines 38-62)
\* ------------------------------------------------------------------------
FailKinds == {"http", "neterr", "timeout"}

\* what one call of fetchWithTimeout + resp.ok + resp.text() can come to
Attempt(kind, text) == [kind |-> kind, text |-> text]

Attempts(pages) ==
  {Attempt("ok", p) : p \in pages} \cup {Attempt(f, <<>>) : f \in FailKinds}

\* the attempt is aborted after ms milliseconds (fetchWithTimeout)
AttemptMs(a, timeout) == IF a.kind = "timeout" THEN timeout ELSE LatencyMs

\* a backoff that does not grow
BackoffFlat(i) == BACKOFF_BASE_MS

\* line 56
Backoff(i) == BACKOFF_BASE_MS * Pow2(i)

\* what the network answers to the successive attempts of one call of
\* fetchRetry: failures, then a success unless the attempts run out
Scripts(pages, tries, kinds) ==
  UNION {{fs \o tl : fs \in [1..n -> {Attempt(f, <<>>) : f \in kinds}],
                     tl \in IF n = tries THEN {<<>>}
                            ELSE {<<Attempt("ok", p)>> : p \in pages}} : n \in 0..tries}

\* fetchRetry as a function of the answers: the loop from attempt i on
RECURSIVE FetchLoop(_, _, _, _, _, _)
FetchLoop(script, tries, timeout, i, waits, ms) ==
  IF i >= tries
  THEN [ok |-> FALSE, text |-> <<>>, err |-> IF i = 0 THEN "failed" ELSE script[i].kind,
        attempts |-> i, waits |-> waits, ms |-> ms]
  ELSE LET a == script[i + 1] IN
       IF a.kind = "ok"
       THEN [ok |-> TRUE, text |-> a.text, err |-> "", attempts |-> i + 1,
             waits |-> waits, ms |-> ms + AttemptMs(a, timeout)]
       ELSE FetchLoop(script, tries, timeout, i + 1, Append(waits, Backoff(i)),
                      ms + AttemptMs(a, timeout) + Backoff(i))

fetchRetry(script, tries, timeout) == FetchLoop(script, tries, timeout, 0, <<>>, 0)

\* ------------------------------------------------------------------------
\* ResultSink (run, lines 198-201)
\* ------------------------------------------------------------------------
headers == <<"email", "mcNumber", "phone", "url">>

\* .replace(/"/g,'""')
RECURSIVE DoubleQuotes(_)
DoubleQuotes(s) ==
  IF s = <<>> THEN <<>>
  ELSE (IF Head(s) = "\"" THEN <<"\"", "\"">> ELSE <<Head(s)>>) \o DoubleQuotes(Tail(s))

CsvField(s) == <<"\"">> \o DoubleQuotes(s) \o <<"\"">>

RECURSIVE Join(_, _)
Join(parts, sep) ==
  IF parts = <<>> THEN <<>>
  ELSE IF Len(parts) = 1 THEN parts[1]
  ELSE parts[1] \o <<sep>> \o Join(Tail(parts), sep)

CsvLine(r) == Join([h \in 1..Len(headers) |-> CsvField(r[headers[h]])], ",")

\* the text written to the checkpoint, as its sequence of lines
Csv(recs) == <<Join([h \in 1..Len(headers) |-> <<headers[h]>>], ",")>>
             \o [k \in 1..Len(recs) |-> CsvLine(recs[k])]

\* ------------------------------------------------------------------------
\* Input file
\* ------------------------------------------------------------------------
DigitChar(n) == <<"0", "1", "2", "3", "4", "5", "6", "7", "8", "9">>[(n % 10) + 1]

\* line n of mc_list.txt: line 2 is blank, the others hold an identifier
\* with blanks around or inside it
SampleLine(n) ==
  CASE n = 2 -> <<" ">>
    [] n % 2 = 1 -> <<DigitChar(n), "0", DigitChar(n)>>
    [] OTHER -> <<" ", DigitChar(n), "0", " ", DigitChar(n), "\t">>

\* raw.split(/\r?\n/).map(s=>s.trim()).filter(Boolean)
ParseList(lines) == SelectSeq([k \in 1..Len(lines) |-> Trim(lines[k])], LAMBDA l : l # <<>>)

\* ------------------------------------------------------------------------
\* State
\* ------------------------------------------------------------------------
VARIABLES
  inputExists,   \* fs.existsSync(INPUT_FILE)
  raw,           \* the lines of mc_list.txt
  CONCURRENCY, BATCH_SIZE, WAIT_SECONDS, MODE,
  pc,            \* where run() is, or how the process ended
  mcList, rows, validUrls, start, end, i, slice,
  tasks,         \* one handleMC pipeline (promise) per identifier of mcList
  files,         \* the CSV checkpoints written, oldest first
  urlFiles,      \* the URL lists written
  overtook,      \* a pipeline of the wave finished before one dispatched earlier
  fr             \* one call of fetchRetry, step by step

config == <<inputExists, raw, CONCURRENCY, BATCH_SIZE, WAIT_SECONDS, MODE>>
runVars == <<pc, mcList, rows, validUrls, start, end, i, slice, tasks, files, urlFiles, overtook>>
vars == <<config, runVars, fr>>

\* a pipeline that was not dispatched yet
IdleTask ==
  [pc |-> "idle", url |-> <<>>, marked |-> <<>>, html |-> <<>>, mcNumber |-> <<>>,
   phone |-> <<>>, smsLink |-> <<>>, regLink |-> <<>>, email |-> <<>>, elapsed |-> 0,
   calls |-> <<>>, pauses |-> 0, passed |-> FALSE, exhausted |-> <<>>,
   valid |-> FALSE, hasRow |-> FALSE]

\* one call of fetchRetry that has not started
IdleFetch ==
  [pc |-> "idle", tries |-> 0, i |-> 0, lastErr |-> "", script |-> <<>>, waits |-> <<>>,
   text |-> <<>>, ms |-> 0]

\* the record extractOne returns (line 135)
Row(t) == [email |-> t.email, mcNumber |-> t.mcNumber, phone |-> t.phone, url |-> t.url]

Wave == (i + 1)..(i + Len(slice))
InFlight == {k \in DOMAIN tasks : tasks[k].pc \in {"lookup", "snapshot", "sms", "registration"}}

\* ------------------------------------------------------------------------
\* handleMC and extractOne (lines 80-162), one action per fetchRetry awaited
\* ------------------------------------------------------------------------
\* how the attempts of the pipelines fail: quickly, or by running into the
\* timeout of the attempt
Outages == {"http", "timeout"}

\* the call of fetchRetry at the named place was made
Called(t, site) == [t EXCEPT !.calls = Append(@, site)]

\* lines 110 and 118: the pause before a hop is over
Paused(t) == [t EXCEPT !.pauses = @ + 1]

\* handleMC returns { valid:false }
Invalid(t) == [t EXCEPT !.pc = "done", !.valid = FALSE, !.hasRow = FALSE, !.elapsed = 0]

\* handleMC returns { valid:true, url, row } after extractOne returned
Saved(t) == [t EXCEPT !.pc = "done", !.valid = TRUE, !.hasRow = TRUE, !.elapsed = 0]

\* pipeline k settles while a pipeline dispatched before it is still running
Overtakes(k) == \E j \in Wave : j < k /\ tasks[j].pc # "done"

Settle(k, t) ==
  /\ tasks' = [tasks EXCEPT ![k] = t]
  /\ overtook' = (overtook \/ (t.pc = "done" /\ Overtakes(k)))
  /\ pc' = pc

\* the timer of line 81 fires while extractOne is still awaiting: its callback
\* throws outside any promise, and the uncaught exception ends the process
TimerFires(k, t, site, r, at) ==
  /\ tasks' = [tasks EXCEPT ![k] =
       [t EXCEPT !.calls = IF at - r.ms < EXTRACT_TIMEOUT_MS THEN Append(@, site) ELSE @,
                 !.pauses = IF site # "snapshot" /\ at - r.ms < EXTRACT_TIMEOUT_MS
                            THEN @ + 1 ELSE @,
                 !.elapsed = EXTRACT_TIMEOUT_MS,
                 !.exhausted = IF ~r.ok /\ at - Backoff(MAX_RETRIES - 1) < EXTRACT_TIMEOUT_MS
                               THEN Append(@, site) ELSE @]]
  /\ pc' = "uncaught"
  /\ overtook' = overtook

\* lines 140-153 and 158-161: the lookup fetch and the ValidityGate
HandleMCLookup(k) ==
  /\ pc = "await" /\ tasks[k].pc = "lookup"
  /\ \E script \in Scripts(LookupPages, MAX_RETRIES, Outages) :
       LET r == fetchRetry(script, MAX_RETRIES, FETCH_TIMEOUT_MS)
           t == [Called(tasks[k], "lookup") EXCEPT !.marked = Marked(r.text)]
       IN Settle(k, IF ~r.ok THEN Invalid([t EXCEPT !.exhausted = Append(@, "lookup")])
                    ELSE IF ~PassesGate(r.text) THEN Invalid(t)
                    ELSE IF MODE = "urls"
                    THEN [t EXCEPT !.pc = "done", !.passed = TRUE, !.valid = TRUE]
                    ELSE [t EXCEPT !.pc = "snapshot", !.passed = TRUE, !.elapsed = 0])
  /\ UNCHANGED <<config, mcList, rows, validUrls, start, end, i, slice, files, urlFiles, fr>>

\* every hop followed, with or without a link
FollowsAlways(link) == TRUE

\* lines 109 and 117: a hop is followed when its link was found
Follows(link) == link # <<>>

\* lines 81-106: extractOne arms its timer, fetches the lookup page again and
\* parses it; a failure of this fetch is thrown to the catch of handleMC
ExtractSnapshot(k) ==
  /\ pc = "await" /\ tasks[k].pc = "snapshot"
  /\ \E script \in Scripts(LookupPages, MAX_RETRIES, Outages) :
       LET r == fetchRetry(script, MAX_RETRIES, FETCH_TIMEOUT_MS)
           at == tasks[k].elapsed + r.ms
           t == [Called(tasks[k], "snapshot") EXCEPT !.elapsed = at]
           link == FindSmsLink(t.url, r.text)
           got == [t EXCEPT !.html = r.text, !.mcNumber = ExtractMcNumber(r.text),
                            !.phone = extractPhoneAnywhere(r.text), !.smsLink = link]
       IN IF at >= EXTRACT_TIMEOUT_MS THEN TimerFires(k, tasks[k], "snapshot", r, at)
          ELSE Settle(k, IF ~r.ok THEN Invalid([t EXCEPT !.exhausted = Append(@, "snapshot")])
                         ELSE IF ~Follows(link) THEN Saved(got)
                         ELSE [got EXCEPT !.pc = "sms"])
  /\ UNCHANGED <<config, mcList, rows, validUrls, start, end, i, slice, files, urlFiles, fr>>

\* lines 109-116 and 132: the pause, the hop-2 fetch and the hop-3 link
ExtractSms(k) ==
  /\ pc = "await" /\ tasks[k].pc = "sms"
  /\ \E script \in Scripts(SmsPages, MAX_RETRIES, Outages) :
       LET r == fetchRetry(script, MAX_RETRIES, FETCH_TIMEOUT_MS)
           at == tasks[k].elapsed + HopPauseMs + r.ms
           t == [Called(Paused(tasks[k]), "sms") EXCEPT !.elapsed = at]
           link == FindRegLink(t.smsLink, r.text)
       IN IF at >= EXTRACT_TIMEOUT_MS THEN TimerFires(k, tasks[k], "sms", r, at)
          ELSE Settle(k, IF ~r.ok THEN Saved([t EXCEPT !.exhausted = Append(@, "sms")])
                         ELSE IF ~Follows(link) THEN Saved(t)
                         ELSE [t EXCEPT !.pc = "registration", !.regLink = link])
  /\ UNCHANGED <<config, mcList, rows, validUrls, start, end, i, slice, files, urlFiles, fr>>

\* lines 117-135: the pause, the hop-3 fetch and the contact extraction
ExtractRegistration(k) ==
  /\ pc = "await" /\ tasks[k].pc = "registration"
  /\ \E script \in Scripts(RegPages, MAX_RETRIES, Outages) :
       LET r == fetchRetry(script, MAX_RETRIES, FETCH_TIMEOUT_MS)
           at == tasks[k].elapsed + HopPauseMs + r.ms
           t == [Called(Paused(tasks[k]), "registration") EXCEPT !.elapsed = at]
           foundPhone == FoundPhone(r.text)
       IN IF at >= EXTRACT_TIMEOUT_MS THEN TimerFires(k, tasks[k], "registration", r, at)
          ELSE Settle(k, IF ~r.ok THEN Saved([t EXCEPT !.exhausted = Append(@, "registration")])
                         ELSE Saved([t EXCEPT !.email = FoundEmail(r.text),
                                              !.phone = IF foundPhone # <<>> THEN foundPhone ELSE @]))
  /\ UNCHANGED <<config, mcList, rows, validUrls, start, end, i, slice, files, urlFiles, fr>>

\* ------------------------------------------------------------------------
\* run (lines 164-216), one action per stretch of code between two awaits
\* ------------------------------------------------------------------------
\* lines 165-174
Run ==
  /\ pc = "init"
  /\ IF ~inputExists
     THEN /\ pc' = "exit1"
          /\ UNCHANGED <<mcList, tasks>>
     ELSE /\ mcList' = ParseList(raw)
          /\ tasks' = [k \in 1..Len(ParseList(raw)) |-> IdleTask]
          /\ pc' = "batch"
  /\ rows' = <<>> /\ validUrls' = <<>> /\ start' = 0
  /\ UNCHANGED <<config, end, i, slice, files, urlFiles, overtook, fr>>

\* line 176: the test of the batch loop
MoreBatches == start < Len(mcList)

\* lines 176-180: the test of the batch loop and the head of its body
BatchHead ==
  /\ pc = "batch"
  /\ IF MoreBatches
     THEN /\ end' = Min(Len(mcList), start + BATCH_SIZE)
          /\ i' = start
          /\ pc' = "wave"
     ELSE /\ pc' = "finish"
          /\ UNCHANGED <<end, i>>
  /\ UNCHANGED <<config, mcList, rows, validUrls, start, slice, tasks, files, urlFiles, overtook, fr>>

\* a wave that takes the rest of the batch
WaveEndAll == end

\* line 182: where the slice of the wave ends
WaveEnd == Min(end, i + CONCURRENCY)

\* Array.prototype.slice: a negative index counts from the end of the array,
\* both indexes are clamped to the array, and nothing is taken when the second
\* is not after the first
SliceIndex(s, n) == IF n < 0 THEN Max(Len(s) + n, 0) ELSE Min(n, Len(s))
JsSlice(s, from, to) ==
  IF SliceIndex(s, from) < SliceIndex(s, to)
  THEN SubSeq(s, SliceIndex(s, from) + 1, SliceIndex(s, to))
  ELSE <<>>

\* lines 181-184: a wave is cut from the list and its pipelines are started
Dispatch ==
  /\ pc = "wave" /\ i < end
  /\ LET sl == JsSlice(mcList, i, WaveEnd) IN
       /\ slice' = sl
       /\ tasks' = [k \in DOMAIN tasks |->
            IF k \in (i + 1)..(i + Len(sl))
            THEN [IdleTask EXCEPT !.pc = "lookup", !.url = mcToSnapshotUrl(mcList[k])]
            ELSE tasks[k]]
  /\ overtook' = FALSE
  /\ pc' = "await"
  /\ UNCHANGED <<config, mcList, rows, validUrls, start, end, i, files, urlFiles, fr>>

\* outcomes taken last-dispatched first
ResultsReversed == [j \in 1..Len(slice) |-> tasks[i + Len(slice) + 1 - j]]

\* the results of Promise.all: the outcomes of the wave in dispatch order
Results == [j \in 1..Len(slice) |-> tasks[i + j]]

\* the URL of every outcome, valid or not
MergedUrlsOfAll(results) == [j \in 1..Len(results) |-> results[j].url]

\* lines 185-187: the URLs of the valid outcomes
MergedUrls(results) ==
  LET ok == SelectSeq(results, LAMBDA r : r.valid /\ r.url # <<>>)
  IN [j \in 1..Len(ok) |-> ok[j].url]

\* lines 185-188: the records of the valid outcomes
MergedRows(results) ==
  LET ok == SelectSeq(results, LAMBDA r : r.valid /\ r.hasRow)
  IN [j \in 1..Len(ok) |-> Row(ok[j])]

\* a merge as soon as one pipeline of the wave has settled
WaveAnySettled == \E k \in Wave : tasks[k].pc = "done"

\* line 184: Promise.all resolves when every pipeline of the wave has settled
WaveSettled == \A k \in Wave : tasks[k].pc = "done"

\* lines 184-192: Promise.all resolved; the outcomes are merged
Merge ==
  /\ pc = "await"
  /\ WaveSettled
  /\ validUrls' = validUrls \o MergedUrls(Results)
  /\ rows' = rows \o MergedRows(Results)
  /\ i' = i + Len(slice)
  /\ slice' = <<>>
  /\ pc' = "waveSleep"
  /\ UNCHANGED <<config, mcList, start, end, tasks, files, urlFiles, overtook, fr>>

\* what stays of a pipeline once results went out of scope
Settled(t) ==
  [IdleTask EXCEPT !.pc = "done", !.url = t.url, !.passed = t.passed,
                   !.valid = t.valid, !.hasRow = t.hasRow]

\* line 192: the pause between two waves is over
WaveSleep ==
  /\ pc = "waveSleep"
  /\ pc' = "wave"
  /\ tasks' = [k \in DOMAIN tasks |-> IF tasks[k].pc = "done" THEN Settled(tasks[k]) ELSE tasks[k]]
  /\ UNCHANGED <<config, mcList, rows, validUrls, start, end, i, slice, files, urlFiles, overtook, fr>>

\* a checkpoint of the records added since the checkpoint before it
CheckpointDelta ==
  SubSeq(rows, IF files = <<>> THEN 1 ELSE Len(files[Len(files)]), Len(rows))

\* line 200: the records a checkpoint serializes
CheckpointRows == rows

\* a wait after every batch, the last one included
WaitsAfterEveryBatch == WAIT_SECONDS > 0

\* line 205: the wait between two batches is taken
WaitsBeforeNextBatch == WAIT_SECONDS > 0 /\ end < Len(mcList)

\* lines 195-208 and 176: the checkpoint of the batch; writeFileSync may throw,
\* which rejects run() and ends the process at lines 218-221
Checkpoint ==
  /\ pc = "wave" /\ i >= end
  /\ Len(files) < MaxFiles
  /\ \E written \in BOOLEAN :
       IF ~written
       THEN /\ pc' = "fatal"
            /\ UNCHANGED <<files, start>>
       ELSE /\ files' = Append(files, Csv(CheckpointRows))
            /\ IF WaitsBeforeNextBatch
               THEN pc' = "batchWait" /\ start' = start
               ELSE pc' = "batch" /\ start' = start + BATCH_SIZE
  /\ UNCHANGED <<config, mcList, rows, validUrls, end, i, slice, tasks, urlFiles, overtook, fr>>

\* line 207: the wait between two batches is over
BatchWait ==
  /\ pc = "batchWait"
  /\ start' = start + BATCH_SIZE
  /\ pc' = "batch"
  /\ UNCHANGED <<config, mcList, rows, validUrls, end, i, slice, tasks, files, urlFiles, overtook, fr>>

\* a URL list written in every mode
WritesUrlListAlways == TRUE

\* line 211: the URL list is written in the URL-only mode
WritesUrlList == MODE = "urls"

\* lines 211-216
Finish ==
  /\ pc = "finish"
  /\ IF WritesUrlList
     THEN \E written \in BOOLEAN :
            IF written THEN urlFiles' = Append(urlFiles, validUrls) /\ pc' = "done"
            ELSE pc' = "fatal" /\ UNCHANGED urlFiles
     ELSE pc' = "done" /\ UNCHANGED urlFiles
  /\ UNCHANGED <<config, mcList, rows, validUrls, start, end, i, slice, tasks, files, overtook, fr>>

\* ------------------------------------------------------------------------
\* The run
\* ------------------------------------------------------------------------
Modes == {"both", "urls"}
BatchSizes == {1, 2}
WaitSeconds == {0, 1}

\* the input files: the first lines of the sample, and a file of blank lines
RawFiles ==
  {[k \in 1..n |-> SampleLine(k)] : n \in 0..MaxLines} \cup {<<SampleLine(2), <<>>>>}

Init ==
  /\ inputExists \in BOOLEAN
  /\ raw \in RawFiles
  /\ inputExists \/ raw = <<>>
  /\ CONCURRENCY \in 1..MaxConc
  /\ BATCH_SIZE \in BatchSizes
  /\ WAIT_SECONDS \in WaitSeconds
  /\ MODE \in Modes
  /\ pc = "init"
  /\ mcList = <<>> /\ rows = <<>> /\ validUrls = <<>>
  /\ start = 0 /\ end = 0 /\ i = 0 /\ slice = <<>>
  /\ tasks = <<>>
  /\ files = <<>> /\ urlFiles = <<>>
  /\ overtook = FALSE
  /\ fr = IdleFetch

Next ==
  \/ Run
  \/ BatchHead
  \/ Dispatch
  \/ \E k \in DOMAIN tasks : HandleMCLookup(k)
  \/ \E k \in DOMAIN tasks : ExtractSnapshot(k)
  \/ \E k \in DOMAIN tasks : ExtractSms(k)
  \/ \E k \in DOMAIN tasks : ExtractRegistration(k)
  \/ Merge
  \/ WaveSleep
  \/ Checkpoint
  \/ BatchWait
  \/ Finish

Spec == Init /\ [][Next]_vars

\* the run under every value of CONCURRENCY and BATCH_SIZE that Number()
\* yields for a numeric setting (lines 11 and 13): zero and negative values too
ConcurrencyAny == {-1, 0, 1}
BatchSizeAny == {-1, 0, 1, 2}

InitAny ==
  /\ inputExists = TRUE
  /\ raw \in RawFiles
  /\ CONCURRENCY \in ConcurrencyAny
  /\ BATCH_SIZE \in BatchSizeAny
  /\ WAIT_SECONDS \in WaitSeconds
  /\ MODE \in Modes
  /\ pc = "init"
  /\ mcList = <<>> /\ rows = <<>> /\ validUrls = <<>>
  /\ start = 0 /\ end = 0 /\ i = 0 /\ slice = <<>>
  /\ tasks = <<>>
  /\ files = <<>> /\ urlFiles = <<>>
  /\ overtook = FALSE
  /\ fr = IdleFetch

SpecAny == InitAny /\ [][Next]_vars

\* ------------------------------------------------------------------------
\* fetchRetry step by step (lines 47-62): one action per await
\* ------------------------------------------------------------------------
FetchPages == {PageBare, PageNotFound}

\* line 48: the call, and the loop test before the first attempt
FrCall ==
  /\ fr.pc = "idle"
  /\ \E tries \in 0..MaxTries :
       fr' = [IdleFetch EXCEPT !.tries = tries,
                               !.pc = IF 0 < tries THEN "attempt" ELSE "thrown",
                               !.lastErr = IF 0 < tries THEN "" ELSE "failed"]
  /\ UNCHANGED <<config, runVars>>

\* lines 50-58: attempt i is answered (or aborted after the timeout); a failure
\* of any kind is caught, recorded and followed by the backoff sleep
FrAttempt ==
  /\ fr.pc = "attempt"
  /\ \E a \in Attempts(FetchPages) :
       LET f == [fr EXCEPT !.script = Append(@, a), !.ms = @ + AttemptMs(a, FETCH_TIMEOUT_MS)]
       IN fr' = IF a.kind = "ok" THEN [f EXCEPT !.pc = "returned", !.text = a.text]
                ELSE [f EXCEPT !.pc = "backoff", !.lastErr = a.kind]
  /\ UNCHANGED <<config, runVars>>

\* lines 58-61: the backoff sleep is over; the loop goes on or lastErr is thrown
FrBackoff ==
  /\ fr.pc = "backoff"
  /\ fr' = [fr EXCEPT !.waits = Append(@, Backoff(fr.i)), !.ms = @ + Backoff(fr.i),
                      !.i = @ + 1,
                      !.pc = IF fr.i + 1 < fr.tries THEN "attempt" ELSE "thrown"]
  /\ UNCHANGED <<config, runVars>>

InitFetch ==
  /\ inputExists = FALSE /\ raw = <<>>
  /\ CONCURRENCY = 1 /\ BATCH_SIZE = 1 /\ WAIT_SECONDS = 0 /\ MODE = "both"
  /\ pc = "init"
  /\ mcList = <<>> /\ rows = <<>> /\ validUrls = <<>>
  /\ start = 0 /\ end = 0 /\ i = 0 /\ slice = <<>>
  /\ tasks = <<>>
  /\ files = <<>> /\ urlFiles = <<>>
  /\ overtook = FALSE
  /\ fr = IdleFetch

NextFetch ==
  \/ FrCall
  \/ FrAttempt
  \/ FrBackoff

SpecFetch == InitFetch /\ [][NextFetch]_vars

\* the step-by-step call agrees with fetchRetry as a function of the answers
FetchAgrees ==
  fr.pc \in {"returned", "thrown"} =>
    LET r == fetchRetry(fr.script, fr.tries, FETCH_TIMEOUT_MS)
    IN /\ r.ok = (fr.pc = "returned")
       /\ r.text = fr.text /\ r.waits = fr.waits /\ r.ms = fr.ms
       /\ r.attempts = Len(fr.script)
       /\ r.ok \/ r.err = fr.lastErr

\* ------------------------------------------------------------------------
\* Properties
\* ------------------------------------------------------------------------
Merged == {k \in DOMAIN tasks : k <= i}
Ended == pc \in {"done", "exit1", "fatal", "uncaught"}

\* the URLs the identifiers 1..n contributed, in the order of the input list
RECURSIVE UrlsInListOrder(_, _)
UrlsInListOrder(n, withRow) ==
  IF n = 0 THEN <<>>
  ELSE UrlsInListOrder(n - 1, withRow)
       \o (IF tasks[n].valid /\ (withRow => tasks[n].hasRow)
           THEN <<mcToSnapshotUrl(mcList[n])>> ELSE <<>>)

\* C1: wave bounding. In every reachable state the number of handleMC
\* pipelines started and not yet finished is at most CONCURRENCY (>= 1); a
\* pipeline awaits one fetchRetry at a time, so this also bounds the requests
\* in flight.
C1_WaveBounded == Cardinality(InFlight) <= CONCURRENCY

\* C1 witness: as many pipelines as CONCURRENCY allows are running while an
\* identifier of the same batch is held back for the next wave.
C1_Witness ==
  /\ pc = "await"
  /\ Cardinality(InFlight) = CONCURRENCY
  /\ \E k \in DOMAIN tasks : k <= end /\ tasks[k].pc = "idle"

\* C2: per-identifier failures never terminate the run: whatever happens in a
\* pipeline, including an extraction that outlasts EXTRACT_TIMEOUT_MS, the
\* process ends only when run() is through, the input file is missing or
\* run() itself fails.
C2_NoEarlyExit == pc # "uncaught"

\* C3: every identifier whose lookup page passed the ValidityGate has, once
\* its wave is merged, a record with its non-empty lookup URL in rows, whatever
\* the fetches after the gate did (stated for MODE both, where records are
\* built).
C3_ValidIsRecorded ==
  \A k \in Merged :
    (MODE = "both" /\ tasks[k].passed) =>
      /\ tasks[k].url # <<>>
      /\ \E j \in 1..Len(rows) : rows[j].url = tasks[k].url

\* C4: an identifier whose lookup page carries 'record not found' or 'record
\* inactive' (any case) or a Power Units figure of zero gets an invalid
\* outcome, its only fetchRetry call is the lookup, and once its wave is merged
\* neither rows nor validUrls holds anything for it.
C4_InvalidStopsAtLookup ==
  \A k \in DOMAIN tasks :
    tasks[k].marked # <<>> =>
      /\ tasks[k].pc = "done" /\ ~tasks[k].valid /\ ~tasks[k].hasRow /\ ~tasks[k].passed
      /\ tasks[k].calls = <<"lookup">>
      /\ \A j \in 1..Len(validUrls) : validUrls[j] # tasks[k].url
      /\ \A j \in 1..Len(rows) : rows[j].url # tasks[k].url

\* C4 witness: a wave was merged in which one identifier had zero power units
\* and another one an inactive record, while a third outcome was recorded.
C4_Witness ==
  /\ pc = "waveSleep"
  /\ \E k \in Merged : tasks[k].marked = <<Tok("pu", <<"0", ",", "0", "0", "0">>)>>
  /\ \E k \in Merged : tasks[k].valid

\* C5: a call of fetchRetry whose attempts fail k < tries times and then
\* succeed returns the text of the successful attempt after exactly k+1
\* attempts and exactly k backoff waits of BACKOFF_BASE_MS*2^0, ...,
\* BACKOFF_BASE_MS*2^(k-1) in this order, whatever the kind of each failure
\* (non-2xx status, network error, timeout).
C5_RetryThenSuccess ==
  fr.pc = "returned" =>
    LET k == Len(fr.script) - 1 IN
      /\ k < fr.tries
      /\ \A j \in 1..k : fr.script[j].kind \in FailKinds
      /\ fr.script[k + 1].kind = "ok" /\ fr.text = fr.script[k + 1].text
      /\ fr.waits = [j \in 1..k |-> BACKOFF_BASE_MS * Pow2(j - 1)]
      /\ SumSeq(fr.waits) = BACKOFF_BASE_MS * (Pow2(k) - 1)

\* C5 witness: three failures, the first of them a non-2xx status, then a
\* success.
C5_Witness ==
  /\ fr.pc = "returned" /\ Len(fr.script) = 4
  /\ fr.script[1].kind = "http" /\ fr.script[2].kind = "timeout"
  /\ fr.text = PageBare

\* C6: when the lookup fetch of an identifier has used up its attempts, the
\* other identifiers of the wave still run to completion and the run goes on:
\* the process is not ended under them.
C6_LookupFailureIsolated ==
  (\E k \in DOMAIN tasks : \E n \in 1..Len(tasks[k].exhausted) :
      tasks[k].exhausted[n] \in {"lookup", "snapshot"})
  => pc # "uncaught"

\* C7: when the hop-2 or the hop-3 fetch has used up its attempts, extractOne
\* returns a record with the lookup URL, the registry number and the phone of
\* the lookup page and an empty email.
C7_DeepFailureDegrades ==
  \A k \in DOMAIN tasks :
    (\E n \in 1..Len(tasks[k].exhausted) : tasks[k].exhausted[n] \in {"sms", "registration"}) =>
      /\ tasks[k].pc = "done" /\ tasks[k].hasRow
      /\ Row(tasks[k]) = [email |-> <<>>, mcNumber |-> ExtractMcNumber(tasks[k].html),
                          phone |-> extractPhoneAnywhere(tasks[k].html),
                          url |-> mcToSnapshotUrl(mcList[k])]

\* C8: once the lookup page passed the ValidityGate, the outcome handleMC
\* returns is valid.
C8_PassedStaysValid ==
  \A k \in DOMAIN tasks : (tasks[k].passed /\ tasks[k].pc = "done") => tasks[k].valid

\* the number of records in checkpoint j
Records(j) == Len(files[j]) - 1

\* every checkpoint is the serialization of a prefix of rows, a later one of a
\* longer prefix, and the one just written of all of rows
SnapshotsOfRows ==
  /\ \A j \in 1..Len(files) :
       /\ Records(j) \in 0..Len(rows)
       /\ files[j] = Csv(SubSeq(rows, 1, Records(j)))
       /\ j < Len(files) => Records(j) <= Records(j + 1)
  /\ pc \in {"batch", "batchWait"} /\ files # <<>> => Records(Len(files)) = Len(rows)

\* C9: rows and validUrls only grow at their end, and each checkpoint holds
\* the header and one line for every record accumulated since the start of the
\* run, so that the records of a checkpoint are a prefix of those of the next.
C9_AppendOnlySnapshots ==
  /\ []SnapshotsOfRows
  /\ [][IsPrefix(rows, rows') /\ IsPrefix(validUrls, validUrls')
        /\ IsPrefix(files, files')]_vars

\* C9 witness: two checkpoints, the first with a record, the second with more.
C9_Witness ==
  /\ Len(files) >= 2
  /\ Records(1) >= 1
  /\ Records(2) > Records(1)

\* C10: the accumulated valid URLs and records are those of the identifiers of
\* the merged waves in the order of the input list; nothing of the wave in
\* flight is in them, whatever the order in which its pipelines finish.
C10_InputOrder ==
  /\ validUrls = UrlsInListOrder(i, FALSE)
  /\ [j \in 1..Len(rows) |-> rows[j].url] = UrlsInListOrder(i, TRUE)

\* C10 witness: a wave was merged whose second pipeline finished before its
\* first, both with a record.
C10_Witness ==
  /\ pc = "waveSleep" /\ overtook
  /\ Len(rows) >= 2

\* the number of batches of the list (BATCH_SIZE >= 1)
NumBatches == (Len(mcList) + BATCH_SIZE - 1) \div BATCH_SIZE

\* C11: in MODE urls a pipeline makes no fetchRetry call but the lookup and
\* builds no record; a run that completes has written exactly one URL list,
\* after the checkpoint of the last batch, holding the lookup URLs of the valid
\* identifiers in the order of the list; in MODE both no URL list is written.
C11_UrlOnlyMode ==
  /\ MODE = "urls" =>
       \A k \in DOMAIN tasks :
         /\ tasks[k].pc \in {"idle", "lookup", "done"}
         /\ IsPrefix(tasks[k].calls, <<"lookup">>)
         /\ ~tasks[k].hasRow
  /\ urlFiles # <<>> =>
       /\ MODE = "urls" /\ pc = "done" /\ Len(urlFiles) = 1
       /\ Len(files) = NumBatches /\ i = Len(mcList)
       /\ urlFiles[1] = UrlsInListOrder(Len(mcList), FALSE)
  /\ pc = "done" => Len(urlFiles) = (IF MODE = "urls" THEN 1 ELSE 0)

\* C11 witness: a run in MODE urls completed after two batches; its URL list
\* names one identifier and leaves out another one.
C11_Witness ==
  /\ MODE = "urls" /\ pc = "done" /\ Len(files) = 2
  /\ Len(urlFiles) = 1 /\ Len(urlFiles[1]) = 1 /\ Len(mcList) = 2

\* C12: a run that found its input file and completed has written at least one
\* CSV checkpoint, whatever the list, the empty list (an input file that is
\* empty or holds only blank lines) included.
C12_AlwaysACheckpoint == pc = "done" => Len(files) >= 1

\* C13: fetchRetry makes at most tries attempts and waits only between a failed
\* attempt and the retry that follows it: the backoff after attempt i (from 0)
\* is BACKOFF_BASE_MS*2^i and attempt i+1 comes next, and when the last allowed
\* attempt has failed the last error is thrown with no wait after it.
C13_WaitOnlyBeforeRetry ==
  /\ Len(fr.script) <= fr.tries
  /\ fr.pc = "backoff" => fr.i + 1 < fr.tries
  /\ (fr.pc = "thrown" /\ fr.tries > 0) =>
       /\ fr.lastErr = fr.script[fr.tries].kind
       /\ fr.waits = [j \in 1..(fr.tries - 1) |-> BACKOFF_BASE_MS * Pow2(j - 1)]

\* the batch of identifier k (from 1)
BatchOf(k) == (k - 1) \div BATCH_SIZE + 1

\* C14: the list is cut into contiguous batches of BATCH_SIZE identifiers (the
\* last may be shorter); one checkpoint is written per batch, after all the
\* pipelines of the batch finished and were merged and before a pipeline of the
\* next batch starts; the wait between batches follows the checkpoint, only
\* when WAIT_SECONDS > 0 and identifiers remain, never after the last batch.
C14_BatchBoundaries ==
  /\ Len(files) <= NumBatches
  /\ pc = "done" => Len(files) = NumBatches
  /\ pc \in {"wave", "await", "waveSleep"} =>
       /\ start = Len(files) * BATCH_SIZE
       /\ end = Min(Len(mcList), start + BATCH_SIZE)
       /\ start <= i /\ i + Len(slice) <= end
  /\ \A k \in DOMAIN tasks :
       /\ tasks[k].pc # "idle" => Len(files) >= BatchOf(k) - 1
       /\ Len(files) >= BatchOf(k) => tasks[k].pc = "done" /\ k <= i
  /\ pc = "batchWait" =>
       /\ WAIT_SECONDS > 0 /\ Len(files) < NumBatches
       /\ Len(files) = BatchOf(end) /\ i = end /\ end < Len(mcList)

\* C14 witness: after the checkpoint of the first batch and the wait, a
\* pipeline of the second batch is running.
C14_Witness ==
  /\ pc = "await" /\ InFlight # {}
  /\ Len(files) = 1 /\ WAIT_SECONDS > 0

\* the calls of fetchRetry a pipeline made for its lookup URL
LookupFetches(t) == {n \in 1..Len(t.calls) : t.calls[n] \in {"lookup", "snapshot"}}

\* C15: the lookup page of an identifier is fetched with fetchRetry once, and
\* the page the registry number, the phone and the hop-2 link are taken from is
\* the page the ValidityGate judged: no record is built from a page the gate
\* would have rejected.
C15_OneLookupPage ==
  \A k \in DOMAIN tasks :
    /\ Cardinality(LookupFetches(tasks[k])) <= 1
    /\ tasks[k].html # <<>> => PassesGate(tasks[k].html)

InCalls(t, site) == \E n \in 1..Len(t.calls) : t.calls[n] = site

\* the record built from the lookup page alone
LookupRecord(t) ==
  [email |-> <<>>, mcNumber |-> ExtractMcNumber(t.html),
   phone |-> extractPhoneAnywhere(t.html), url |-> t.url]

\* C16: within a pipeline the fetches are issued in the order lookup, hop 2,
\* hop 3; hop 2 only after the lookup page was fetched and held a link to the
\* safety system, hop 3 only after the hop-2 page was fetched and held a link
\* to the registration page; a pause precedes each of the two; when a link is
\* missing, nothing more is fetched and the record built so far is returned.
C16_HopOrdering ==
  \A k \in DOMAIN tasks :
    LET t == tasks[k] IN
      /\ IsPrefix(t.calls, <<"lookup", "snapshot", "sms", "registration">>)
      /\ t.pauses = Cardinality({n \in 1..Len(t.calls) : t.calls[n] \in {"sms", "registration"}})
      /\ (t.pc = "sms" \/ InCalls(t, "sms")) =>
           /\ InCalls(t, "snapshot") /\ t.html # <<>>
           /\ \E n \in 1..Len(t.html) :
                /\ t.html[n].t = "href" /\ IsSmsHref(t.html[n].v)
                /\ t.smsLink = absoluteUrl(t.url, t.html[n].v)
      /\ (t.pc = "registration" \/ InCalls(t, "registration")) =>
           /\ InCalls(t, "sms")
           /\ t.regLink = absoluteUrl(t.smsLink, RegHref)
      /\ (t.pc = "done" /\ t.hasRow /\ t.html # <<>> /\ t.smsLink = <<>>) =>
           t.calls = <<"lookup", "snapshot">> /\ Row(t) = LookupRecord(t)
      /\ (t.pc = "done" /\ t.hasRow /\ t.html # <<>> /\ t.smsLink # <<>> /\ t.regLink = <<>>) =>
           t.calls = <<"lookup", "snapshot", "sms">> /\ Row(t) = LookupRecord(t)

\* C16 witness: in one wave a pipeline went through the three hops, and another
\* one found no link to the registration page on its hop-2 page and returned
\* the record of the lookup page.
C16_Witness ==
  /\ \E k \in DOMAIN tasks :
       tasks[k].pc = "done" /\ tasks[k].pauses = 2 /\ tasks[k].email # <<>>
  /\ \E k \in DOMAIN tasks :
       /\ tasks[k].pc = "done" /\ tasks[k].hasRow /\ tasks[k].exhausted = <<>>
       /\ tasks[k].calls = <<"lookup", "snapshot", "sms">>

\* C17: rows and validUrls do not change while a pipeline is in flight; they
\* change only in the step of run() that merges the outcomes of a wave, after
\* every pipeline of the wave has settled and before the next wave is
\* dispatched, and this step changes no pipeline.
C17_SingleWriter ==
  [][/\ InFlight # {} => (rows' = rows /\ validUrls' = validUrls)
     /\ (rows' # rows \/ validUrls' # validUrls) =>
          /\ pc = "await" /\ pc' = "waveSleep"
          /\ \A k \in Wave : tasks[k].pc = "done"
          /\ tasks' = tasks]_vars

\* C17 witness: a wave of two pipelines, settled in dispatch order, was merged
\* and both outcomes were recorded.
C17_Witness ==
  /\ pc = "waveSleep" /\ ~overtook
  /\ i - start = 2 /\ Len(validUrls) = 2

\* the labelled patterns, and what the generic pattern matches
LabelledPats == <<{"mcmxff"}, {"mcmxmc"}, {"mcmx"}>>
GenericPat == {"mc", "mcmxff", "mcmxmc"}

\* the registry number when the labelled patterns are tried before the generic
SpecificFirst(html) ==
  LET hit == FirstIndex(LabelledPats, LAMBDA p : MatchPat(html, p) # 0)
      any == MatchPat(html, GenericPat)
  IN IF hit # 0 THEN <<"MC-">> \o html[MatchPat(html, LabelledPats[hit])].v
     ELSE IF any # 0 THEN <<"MC-">> \o html[any].v
     ELSE <<>>

\* C18: the registry number of a record is 'MC-' and the digits of the first
\* labelled pattern that matches the lookup page, whatever the generic pattern
\* matches; the generic pattern decides only when no labelled pattern matches,
\* and the field is empty when nothing matches.
C18_SpecificPatternWins ==
  \A k \in DOMAIN tasks :
    tasks[k].html # <<>> => tasks[k].mcNumber = SpecificFirst(tasks[k].html)

\* C19: for every numeric CONCURRENCY and BATCH_SIZE, zero and negative values
\* included, a dispatched wave holds at least one identifier, the wave cursor
\* moves forward with every merge, and the batch cursor moves forward with
\* every batch, so that the loops of run() come to an end.
C19_CursorsAdvance ==
  /\ [](pc = "await" => slice # <<>>)
  /\ [][/\ (pc = "await" /\ pc' = "waveSleep") => i' > i
        /\ (pc \in {"wave", "batchWait"} /\ pc' = "batch") => start' > start]_vars

\* C20: after every merge an identifier has at most one entry in validUrls and
\* at most one in rows, and Len(rows) <= Len(validUrls) <= the number of
\* identifiers dispatched; in MODE both the two have the same length and
\* rows[j].url = validUrls[j] for every j; in MODE urls rows stays empty.
C20_AccumulatorsAligned ==
  /\ Len(rows) <= Len(validUrls)
  /\ Len(validUrls) <= Cardinality({k \in DOMAIN tasks : tasks[k].pc # "idle"})
  /\ \A k \in DOMAIN tasks :
       /\ Cardinality({j \in 1..Len(validUrls) : validUrls[j] = mcToSnapshotUrl(mcList[k])}) <= 1
       /\ Cardinality({j \in 1..Len(rows) : rows[j].url = mcToSnapshotUrl(mcList[k])}) <= 1
  /\ MODE = "both" =>
       /\ Len(rows) = Len(validUrls)
       /\ \A j \in 1..Len(rows) : rows[j].url = validUrls[j]
  /\ MODE = "urls" => rows = <<>>

\* C20 witness: in MODE both two identifiers were merged, one of them invalid,
\* and the other one has its entry in rows and in validUrls.
C20_Witness ==
  /\ MODE = "both" /\ pc = "waveSleep" /\ i = 2
  /\ Len(rows) = 1 /\ Len(validUrls) = 1

====
